---- MODULE Spec2Model ----
(***************************************************************************)
(* Model of the agent registry (agent_storage.py), the similarity matcher  *)
(* (similarity_search.py) and the master agent's request handling          *)
(* (master_agent.py).                                                      *)
(*                                                                         *)
(* Texts are sequences of one-character strings.  Similarity scores are    *)
(* fixed-point numbers: the three sub-metrics are in units of 1/Scale and  *)
(* the weighted score in units of 1/ScoreOne (1/10000), rounded down.      *)
(***************************************************************************)
EXTENDS Integers, Sequences, FiniteSets, TLC

VARIABLES
    file,                  \* content of the backing store agents_storage.json
    inited,                \* an AgentStorage object has been constructed
    last,                  \* the last completed registry call and its result
    req,                   \* the last completed process_request and its trace
    pc,                    \* concurrent callers: position of each caller
    loc,                   \* concurrent callers: local variables of each caller
    query,                 \* matcher input: query_description
    snapshot,              \* matcher input: agents
    similarity_threshold,  \* SimilaritySearch.similarity_threshold
    found                  \* matcher output: <<>> (None) or <<agent>>

vars == <<file, inited, last, req, pc, loc, query, snapshot,
          similarity_threshold, found>>

Range(s) == {s[i] : i \in 1..Len(s)}

Min(a, b) == IF a <= b THEN a ELSE b

Max(a, b) == IF a >= b THEN a ELSE b

(***************************************************************************)
(* Texts used as inputs.                                                   *)
(***************************************************************************)
TxtEmpty == <<>>
TxtMath == <<"m", "a", "t", "h">>
TxtCreative == <<"c", "r", "e", "a", "t", "i", "v", "e">>
TxtSql == <<"s", "q", "l">>
TxtMathAgent == <<"M", "a", "t", "h", "A", "g", "e", "n", "t">>
TxtPoemAgent == <<"P", "o", "e", "m", "A", "g", "e", "n", "t">>
TxtSqlAgent == <<"S", "q", "l", "A", "g", "e", "n", "t">>
TxtSolves == <<"s", "o", "l", "v", "e", "s", " ", "a", "l", "g", "e", "b", "r", "a", " ", "a", "n", "d", " ", "e", "q", "u", "a", "t", "i", "o", "n", "s">>
TxtWritesPoems == <<"w", "r", "i", "t", "e", "s", " ", "p", "o", "e", "m", "s">>
TxtTunes == <<"t", "u", "n", "e", "s", " ", "a", " ", "d", "b", " ", "i", "n", "d", "e", "x">>
TxtAlgebraQuery == <<"a", "l", "g", "e", "b", "r", "a", " ", "e", "q", "u", "a", "t", "i", "o", "n", " ", "s", "o", "l", "v", "e", "r">>
TxtPoemsQuery == <<"W", "r", "i", "t", "e", "s", ",", " ", " ", "P", "O", "E", "M", "S", "!">>
TxtCatQuery == <<"d", "r", "a", "w", " ", "a", " ", "c", "a", "t", " ", "c", "a", "t", " ", "c", "a", "t", " ", "c", "a", "t">>
TxtArith == <<"a", "r", "i", "t", "h", "m", "e", "t", "i", "c", " ", "h", "e", "l", "p", "e", "r">>
TxtDbQuery == <<"a", " ", "d", "b">>
TxtAgentSuffix == <<"A", "g", "e", "n", "t">>
TxtGeneral == <<"g", "e", "n", "e", "r", "a", "l">>
TxtGeneralCap == <<"G", "e", "n", "e", "r", "a", "l">>
TxtGeneralPurpose == <<"G", "e", "n", "e", "r", "a", "l", " ", "p", "u", "r", "p", "o", "s", "e", " ", "a", "s", "s", "i", "s", "t", "a", "n", "t">>
TxtGeneralTasks == <<"g", "e", "n", "e", "r", "a", "l", " ", "t", "a", "s", "k", "s">>
TxtMasterAgent == <<"M", "a", "s", "t", "e", "r", "A", "g", "e", "n", "t">>
TxtPromptHead == <<"Y", "o", "u", " ", "a", "r", "e", " ", "a", " ", "h", "e", "l", "p", "f", "u", "l", " ", "a", "s", "s", "i", "s", "t", "a", "n", "t", " ", "s", "p", "e", "c", "i", "a", "l", "i", "z", "i", "n", "g", " ", "i", "n", " ">>
TxtPromptTail == <<".">>
TxtUnknown == <<"u", "n", "k", "n", "o", "w", "n">>

(***************************************************************************)
(* similarity_search.py: text normalisation                                *)
(***************************************************************************)
UpperSeq == <<"A", "B", "C", "D", "E", "F", "G", "H", "I", "J", "K", "L", "M",
              "N", "O", "P", "Q", "R", "S", "T", "U", "V", "W", "X", "Y", "Z">>

LowerSeq == <<"a", "b", "c", "d", "e", "f", "g", "h", "i", "j", "k", "l", "m",
              "n", "o", "p", "q", "r", "s", "t", "u", "v", "w", "x", "y", "z">>

DigitChars == {"0", "1", "2", "3", "4", "5", "6", "7", "8", "9"}

UpperChars == Range(UpperSeq)

\* [a-zA-Z0-9]
AlnumChars == UpperChars \cup Range(LowerSeq) \cup DigitChars

\* \s
SpaceChars == {" ", "\t", "\n"}

IsSpace(c) == c \in SpaceChars

IsAlnum(c) == c \in AlnumChars

LowerMap ==
    [c \in UpperChars |-> LowerSeq[CHOOSE i \in 1..Len(UpperSeq) : UpperSeq[i] = c]]

\* str.lower() on one character
LowerChar(c) == IF c \in UpperChars THEN LowerMap[c] ELSE c

\* text.lower()
LowerText(t) == [i \in 1..Len(t) |-> LowerChar(t[i])]

\* re.sub(r'[^a-zA-Z0-9\s]', ' ', text)
ReplaceSpecial(t) ==
    [i \in 1..Len(t) |-> IF IsAlnum(t[i]) \/ IsSpace(t[i]) THEN t[i] ELSE " "]

\* re.sub(r'\s+', ' ', text): every maximal run of whitespace becomes one space
RECURSIVE CollapseFrom(_, _, _)
CollapseFrom(t, i, acc) ==
    IF i > Len(t) THEN acc
    ELSE IF IsSpace(t[i])
         THEN IF i < Len(t) /\ IsSpace(t[i + 1])
              THEN CollapseFrom(t, i + 1, acc)
              ELSE CollapseFrom(t, i + 1, Append(acc, " "))
         ELSE CollapseFrom(t, i + 1, Append(acc, t[i]))

\* a _normalize_text without line 198: runs of whitespace are kept
NotCollapsed(t) == t

CollapseSpace(t) == CollapseFrom(t, 1, <<>>)

\* text.strip(): without the whitespace at both ends
Strip(t) ==
    LET kept == {i \in 1..Len(t) : ~IsSpace(t[i])}
    IN  IF kept = {} THEN <<>>
        ELSE SubSeq(t, CHOOSE i \in kept : \A j \in kept : i <= j,
                       CHOOSE i \in kept : \A j \in kept : i >= j)

normalize_text(t) == Strip(CollapseSpace(ReplaceSpecial(LowerText(t))))

\* str.split(): the maximal runs of non-whitespace characters, in order
RECURSIVE SplitFrom(_, _, _, _)
SplitFrom(t, i, word, acc) ==
    IF i > Len(t)
    THEN IF word = <<>> THEN acc ELSE Append(acc, word)
    ELSE IF IsSpace(t[i])
         THEN SplitFrom(t, i + 1, <<>>, IF word = <<>> THEN acc ELSE Append(acc, word))
         ELSE SplitFrom(t, i + 1, Append(word, t[i]), acc)

Split(t) == SplitFrom(t, 1, <<>>, <<>>)

\* self._normalize_text(text).split()
Words(t) == Split(normalize_text(t))

(***************************************************************************)
(* similarity_search.py: the three metrics and the weighted score          *)
(***************************************************************************)
Scale == 1000

ScoreOne == 10 * Scale

WeightJaccard == 4

WeightKeyword == 3

WeightCosine == 3

KeywordMinLen == 3

\* floor of the square root of x, for 0 <= x < (hi + 1)^2
RECURSIVE ISqrtIn(_, _, _)
ISqrtIn(x, lo, hi) ==
    IF lo >= hi THEN lo
    ELSE LET mid == (lo + hi + 1) \div 2
         IN  IF mid * mid <= x THEN ISqrtIn(x, mid, hi) ELSE ISqrtIn(x, lo, mid - 1)

\* words.count(word)
Count(words, w) == Cardinality({i \in 1..Len(words) : words[i] = w})

RECURSIVE SumOver(_, _)
SumOver(S, f) ==
    IF S = {} THEN 0
    ELSE LET x == CHOOSE y \in S : TRUE
         IN  f[x] + SumOver(S \ {x}, f)

\* _jaccard_similarity on the word lists of the two texts
JaccardOfWords(words1, words2) ==
    LET tokens1 == Range(words1)
        tokens2 == Range(words2)
    IN  IF tokens1 = {} /\ tokens2 = {} THEN Scale
        ELSE IF tokens1 = {} \/ tokens2 = {} THEN 0
        ELSE (Cardinality(tokens1 \cap tokens2) * Scale)
                 \div Cardinality(tokens1 \cup tokens2)

\* a _keyword_overlap_similarity that returns 1.0 as soon as one of the two
\* texts has no keyword
KeywordOverlapLenient(words1, words2) ==
    LET keywords1 == {w \in Range(words1) : Len(w) > KeywordMinLen}
        keywords2 == {w \in Range(words2) : Len(w) > KeywordMinLen}
    IN  IF keywords1 = {} \/ keywords2 = {} THEN Scale
        ELSE (Cardinality(keywords1 \cap keywords2) * Scale)
                 \div Max(Cardinality(keywords1), Cardinality(keywords2))

\* _keyword_overlap_similarity on the word lists of the two texts
KeywordOverlapOfWords(words1, words2) ==
    LET keywords1 == {w \in Range(words1) : Len(w) > KeywordMinLen}
        keywords2 == {w \in Range(words2) : Len(w) > KeywordMinLen}
    IN  IF keywords1 = {} /\ keywords2 = {} THEN Scale
        ELSE IF keywords1 = {} \/ keywords2 = {} THEN 0
        ELSE (Cardinality(keywords1 \cap keywords2) * Scale)
                 \div Max(Cardinality(keywords1), Cardinality(keywords2))

\* _cosine_similarity_simple on the word lists of the two texts
CosineOfWords(words1, words2) ==
    LET vocab  == Range(words1) \cup Range(words2)
        count1 == [w \in vocab |-> Count(words1, w)]
        count2 == [w \in vocab |-> Count(words2, w)]
        dot    == SumOver(vocab, [w \in vocab |-> count1[w] * count2[w]])
        sq1    == SumOver(vocab, [w \in vocab |-> count1[w] * count1[w]])
        sq2    == SumOver(vocab, [w \in vocab |-> count2[w] * count2[w]])
    IN  IF vocab = {} THEN Scale
        ELSE IF sq1 = 0 \/ sq2 = 0 THEN 0
        ELSE ISqrtIn((dot * dot * Scale * Scale) \div (sq1 * sq2), 0, Scale)

jaccard_similarity(text1, text2) == JaccardOfWords(Words(text1), Words(text2))

keyword_overlap_similarity(text1, text2) ==
    KeywordOverlapOfWords(Words(text1), Words(text2))

cosine_similarity_simple(text1, text2) == CosineOfWords(Words(text1), Words(text2))

\* agent.get(key, '')
GetText(agent, key) == IF key \in DOMAIN agent THEN agent[key] ELSE <<>>

\* f"{agent.get('description', '')} {agent.get('task_type', '')} {agent.get('name', '')}"
AgentText(agent) ==
    GetText(agent, "description") \o <<" ">> \o GetText(agent, "task_type")
        \o <<" ">> \o GetText(agent, "name")

\* sum(score * weight ...): each metric normalises and splits both texts, the
\* same way each time
WeightedScore(q, agent) ==
    LET words1 == Words(q)
        words2 == Words(AgentText(agent))
    IN  WeightJaccard * JaccardOfWords(words1, words2)
            + WeightKeyword * KeywordOverlapOfWords(words1, words2)
            + WeightCosine * CosineOfWords(words1, words2)

\* a _calculate_similarity that adds the three metrics up without the weights
\* and without the min of line 94
SumOfMetrics(q, agent) ==
    (ScoreOne \div Scale) * (jaccard_similarity(q, AgentText(agent))
                                + keyword_overlap_similarity(q, AgentText(agent))
                                + cosine_similarity_simple(q, AgentText(agent)))

calculate_similarity(q, agent) == Min(WeightedScore(q, agent), ScoreOne)

(***************************************************************************)
(* similarity_search.py: find_similar_agent                                *)
(***************************************************************************)
DefaultThreshold == 900

InitialBestScore == 900

\* the loop of find_similar_agent from position i on; best.scored counts the
\* calls of _calculate_similarity
RECURSIVE ScanAgents(_, _, _, _)
ScanAgents(q, agents, i, best) ==
    IF i > Len(agents) THEN best
    ELSE LET score == calculate_similarity(q, agents[i])
         IN  IF score > best.score
             THEN ScanAgents(q, agents, i + 1,
                             [score |-> score, agent |-> <<agents[i]>>,
                              scored |-> best.scored + 1])
             ELSE ScanAgents(q, agents, i + 1, [best EXCEPT !.scored = best.scored + 1])

\* before the loop: best_agent = None, best_score = 0.09
InitialBest == [score |-> InitialBestScore, agent |-> <<>>, scored |-> 0]

\* a find_similar_agent that scores the query before it looks at the snapshot
ScorerCallsBeforeTest(q, agents) == 1 + Len(agents)

\* the number of calls of _calculate_similarity find_similar_agent makes
ScorerCalls(q, agents) ==
    IF agents = <<>> THEN 0 ELSE ScanAgents(q, agents, 1, InitialBest).scored

\* <<>> stands for None, <<a>> for the agent a
find_similar_agent(q, agents, threshold) ==
    IF agents = <<>> THEN <<>>
    ELSE LET best == ScanAgents(q, agents, 1, InitialBest)
         IN  IF best.score >= threshold /\ best.agent # <<>>
             THEN best.agent
             ELSE <<>>

\* get_similarity_scores: one entry per agent, then
\* results.sort(key=similarity_score, reverse=True), which keeps the entries
\* of equal score in the order of the list
get_similarity_scores(q, agents, threshold) ==
    LET n == Len(agents)
        score == [i \in 1..n |-> calculate_similarity(q, agents[i])]
        order == CHOOSE p \in [1..n -> 1..n] :
                     \A i, j \in 1..n :
                         i < j => \/ score[p[i]] > score[p[j]]
                                  \/ score[p[i]] = score[p[j]] /\ p[i] < p[j]
    IN  [k \in 1..n |->
            [agent |-> agents[order[k]],
             similarity_score |-> score[order[k]],
             meets_threshold |-> score[order[k]] >= threshold]]

(***************************************************************************)
(* agent_storage.py: the backing store                                     *)
(*                                                                         *)
(* file.kind is what the file holds:                                       *)
(*   "absent"          no file                                             *)
(*   "incomplete"      an empty or cut-off JSON document (JSONDecodeError) *)
(*   "garbage"         text that is not JSON (JSONDecodeError)             *)
(*   "undecodable"     bytes that are not UTF-8 (UnicodeDecodeError)       *)
(*   "array", "string", "number", "null"   a JSON value that is no object  *)
(*   "no_agents_key"   a JSON object without the key "agents"              *)
(*   "agents_not_list" a JSON object whose "agents" value is a number      *)
(*   "object"          a JSON object whose "agents" value is the list      *)
(*                     file.agents                                         *)
(***************************************************************************)
Store(agents) == [kind |-> "object", agents |-> agents]

Raw(kind) == [kind |-> kind, agents |-> <<>>]

NonObjectKinds == {"array", "string", "number", "null"}

\* the exception open(storage_file, 'r') and json.load raise on f ("none": no exception)
LoadError(f) ==
    CASE f.kind = "absent" -> "IOError"
      [] f.kind \in {"incomplete", "garbage"} -> "JSONDecodeError"
      [] f.kind = "undecodable" -> "UnicodeDecodeError"
      [] OTHER -> "none"

\* data["agents"] can be read and iterated as a list of agents
HasAgentsList(f) == f.kind = "object"

\* agent.get("name"): <<>> stands for None
NameOf(agent) == IF "name" \in DOMAIN agent THEN <<agent.name>> ELSE <<>>

NamesIn(agents) == {NameOf(agents[i]) : i \in 1..Len(agents)}

\* the for loop of save_agent: the first index holding the name, 0 for None
IndexOfName(agents, key) ==
    IF \E i \in 1..Len(agents) : NameOf(agents[i]) = key
    THEN CHOOSE i \in 1..Len(agents) :
             /\ NameOf(agents[i]) = key
             /\ \A j \in 1..(i - 1) : NameOf(agents[j]) # key
    ELSE 0

\* a save_agent that never looks for the name: every record is appended
UpsertedAlwaysAppend(agents, agent) == Append(agents, agent)

\* a save_agent that drops the record found and appends the new one at the end
UpsertedMoveToEnd(agents, agent) ==
    LET i == IndexOfName(agents, NameOf(agent))
    IN  IF i # 0
        THEN Append(SubSeq(agents, 1, i - 1) \o SubSeq(agents, i + 1, Len(agents)), agent)
        ELSE Append(agents, agent)

\* save_agent lines 64-78: replace in place or append
Upserted(agents, agent) ==
    LET i == IndexOfName(agents, NameOf(agent))
    IN  IF i # 0 THEN [agents EXCEPT ![i] = agent] ELSE Append(agents, agent)

\* a delete_agent whose filter is inverted: it keeps the records of that name
RECURSIVE WithoutInverted(_, _)
WithoutInverted(agents, name) ==
    IF agents = <<>> THEN <<>>
    ELSE IF NameOf(Head(agents)) = <<name>>
         THEN <<Head(agents)>> \o WithoutInverted(Tail(agents), name)
         ELSE WithoutInverted(Tail(agents), name)

\* a delete_agent that removes the first record of that name only
RECURSIVE WithoutFirst(_, _)
WithoutFirst(agents, name) ==
    IF agents = <<>> THEN <<>>
    ELSE IF NameOf(Head(agents)) # <<name>>
         THEN <<Head(agents)>> \o WithoutFirst(Tail(agents), name)
         ELSE Tail(agents)

\* delete_agent lines 147-148: [agent for agent in agents if agent.get("name") != agent_name]
RECURSIVE Without(_, _)
Without(agents, name) ==
    IF agents = <<>> THEN <<>>
    ELSE IF NameOf(Head(agents)) # <<name>>
         THEN <<Head(agents)>> \o Without(Tail(agents), name)
         ELSE Without(Tail(agents), name)

(***************************************************************************)
(* I/O failures are inputs of each call: io names the file operation of    *)
(* the call that fails.                                                    *)
(***************************************************************************)
IoOutcomes == {"ok", "read_fails", "open_w_fails", "dump_fails"}

\* an _ensure_storage_file that never creates the file
EnsureWithoutCreate(f, io) == [file |-> f, raises |-> FALSE]

\* a save_agent that tries again until the file operations succeed
SaveRetries(f, agent, io) ==
    IF LoadError(f) # "none" \/ ~HasAgentsList(f)
    THEN [file |-> f, ret |-> FALSE]
    ELSE [file |-> Store(Upserted(f.agents, agent)), ret |-> TRUE]

\* _ensure_storage_file: the file afterwards and whether an exception leaves __init__
ensure_storage_file(f, io) ==
    IF f.kind = "absent"
    THEN CASE io = "open_w_fails" -> [file |-> f, raises |-> TRUE]
           [] io = "dump_fails"   -> [file |-> Raw("incomplete"), raises |-> TRUE]
           [] OTHER               -> [file |-> Store(<<>>), raises |-> FALSE]
    ELSE LET err == IF io = "read_fails" THEN "IOError" ELSE LoadError(f)
             \* the rewrite of lines 42-43 and of lines 46-47
             rewrite ==
                 CASE io = "open_w_fails" -> [file |-> f, raises |-> TRUE]
                   [] io = "dump_fails"   -> [file |-> Raw("incomplete"), raises |-> TRUE]
                   [] OTHER               -> [file |-> Store(<<>>), raises |-> FALSE]
         IN  CASE err \in {"IOError", "JSONDecodeError"} -> rewrite
               [] err = "UnicodeDecodeError" -> [file |-> f, raises |-> TRUE]
               \* "agents" not in data, data["agents"] = []: TypeError
               [] f.kind \in NonObjectKinds -> [file |-> f, raises |-> TRUE]
               [] f.kind = "no_agents_key" -> rewrite
               [] OTHER -> [file |-> f, raises |-> FALSE]

\* save_agent: the file afterwards and the value returned
save_agent(f, agent, io) ==
    IF io = "read_fails" \/ LoadError(f) # "none" \/ ~HasAgentsList(f)
    THEN [file |-> f, ret |-> FALSE]
    ELSE CASE io = "open_w_fails" -> [file |-> f, ret |-> FALSE]
           [] io = "dump_fails"   -> [file |-> Raw("incomplete"), ret |-> FALSE]
           [] OTHER -> [file |-> Store(Upserted(f.agents, agent)), ret |-> TRUE]

\* delete_agent: the file afterwards and the value returned
delete_agent(f, name, io) ==
    IF io = "read_fails" \/ LoadError(f) # "none" \/ ~HasAgentsList(f)
    THEN [file |-> f, ret |-> FALSE]
    ELSE IF Len(Without(f.agents, name)) < Len(f.agents)
         THEN CASE io = "open_w_fails" -> [file |-> f, ret |-> FALSE]
                [] io = "dump_fails"   -> [file |-> Raw("incomplete"), ret |-> FALSE]
                [] OTHER -> [file |-> Store(Without(f.agents, name)), ret |-> TRUE]
         ELSE [file |-> f, ret |-> FALSE]

\* get_agent: the value returned, <<>> for None; data["agents"] on a value
\* without that key, and the loop over a value that is no list, raise inside
\* the try block
get_agent(f, name, io) ==
    IF io = "read_fails" \/ LoadError(f) # "none" \/ ~HasAgentsList(f)
    THEN <<>>
    ELSE LET i == IndexOfName(f.agents, <<name>>)
         IN  IF i # 0 THEN <<f.agents[i]>> ELSE <<>>

\* list_agents: the value returned; is_list is FALSE when data.get("agents", [])
\* hands back a value that is no list
list_agents(f, io) ==
    IF io = "read_fails" \/ LoadError(f) # "none" \/ f.kind \in NonObjectKinds
    THEN [out |-> <<>>, is_list |-> TRUE]
    ELSE IF f.kind = "agents_not_list"
         THEN [out |-> <<>>, is_list |-> FALSE]
         ELSE [out |-> f.agents, is_list |-> TRUE]

\* agent.get("task_type", "unknown")
TaskTypeOf(agent) == IF "task_type" \in DOMAIN agent THEN agent.task_type ELSE TxtUnknown

\* the report get_storage_stats returns without an "error" entry
StatsOf(agents) ==
    [total |-> Len(agents),
     by_type |-> [t \in {TaskTypeOf(agents[i]) : i \in 1..Len(agents)} |->
                     Cardinality({i \in 1..Len(agents) : TaskTypeOf(agents[i]) = t})],
     error |-> FALSE]

\* get_storage_stats: total_agents, agents_by_type and whether the report
\* carries an "error" entry; "for agent in agents" over a value that is no
\* list raises TypeError, which the except branch turns into the zero report
get_storage_stats(f, io) ==
    LET listed == list_agents(f, io)
    IN  IF listed.is_list
        THEN StatsOf(listed.out)
        ELSE [total |-> 0, by_type |-> [t \in {} |-> 0], error |-> TRUE]

(***************************************************************************)
(* Inputs of the registry calls and of the matcher.                        *)
(***************************************************************************)
MathA == [name |-> TxtMathAgent, description |-> TxtSolves, task_type |-> TxtMath]

MathA2 == [name |-> TxtMathAgent, description |-> TxtArith, task_type |-> TxtMath]

PoemA == [name |-> TxtPoemAgent, description |-> TxtWritesPoems, task_type |-> TxtCreative]

SqlA == [name |-> TxtSqlAgent, description |-> TxtTunes, task_type |-> TxtSql]

\* a record without the key "name"
NoNameA == [description |-> TxtWritesPoems, task_type |-> TxtCreative]

\* a record without the key "task_type", and one whose task_type is ""
NoTypeA == [name |-> TxtSqlAgent, description |-> TxtTunes]

EmptyTypeA == [name |-> TxtPoemAgent, description |-> TxtWritesPoems, task_type |-> TxtEmpty]

SaveInputs == {MathA, MathA2, PoemA, SqlA, NoNameA}

DeleteInputs == {TxtMathAgent, TxtPoemAgent, TxtSqlAgent}

\* the longest collection the registry is driven to
MaxAgents == 3

(***************************************************************************)
(* Values of the variables a specification does not use.                   *)
(***************************************************************************)
NoCall ==
    [op |-> "none", agent |-> <<>>, name |-> <<>>, ret |-> "none", out |-> <<>>,
     pre |-> Raw("absent"), io |-> "ok", stats |-> StatsOf(<<>>)]

NoFound ==
    [done |-> FALSE, agent |-> <<>>, scored |-> 0, listed |-> FALSE, scores |-> <<>>]

IdleRegistry == file = Raw("absent") /\ inited = FALSE /\ last = NoCall

IdleRequest == req = <<>>

IdleCallers == pc = <<>> /\ loc = <<>>

IdleMatcher ==
    /\ query = <<>>
    /\ snapshot = <<>>
    /\ similarity_threshold = DefaultThreshold
    /\ found = NoFound

(***************************************************************************)
(* The registry, one caller: every call runs from start to end.            *)
(***************************************************************************)
\* AgentStorage(): __init__ runs _ensure_storage_file
Construct(io) ==
    LET r == ensure_storage_file(file, io)
    IN  /\ file' = r.file
        /\ inited' = (inited \/ ~r.raises)
        /\ last' = [NoCall EXCEPT !.op = "init", !.pre = file, !.io = io,
                                  !.ret = IF r.raises THEN "raise" ELSE "returned"]
        /\ UNCHANGED <<req, pc, loc, query, snapshot, similarity_threshold, found>>

SaveAgent(agent, io) ==
    LET r == save_agent(file, agent, io)
    IN  /\ inited
        /\ Len(r.file.agents) <= MaxAgents
        /\ file' = r.file
        /\ last' = [NoCall EXCEPT !.op = "save_agent", !.agent = <<agent>>,
                                  !.pre = file, !.io = io,
                                  !.ret = IF r.ret THEN "True" ELSE "False"]
        /\ UNCHANGED <<inited, req, pc, loc, query, snapshot, similarity_threshold, found>>

DeleteAgent(name, io) ==
    LET r == delete_agent(file, name, io)
    IN  /\ inited
        /\ file' = r.file
        /\ last' = [NoCall EXCEPT !.op = "delete_agent", !.name = <<name>>,
                                  !.pre = file, !.io = io,
                                  !.ret = IF r.ret THEN "True" ELSE "False"]
        /\ UNCHANGED <<inited, req, pc, loc, query, snapshot, similarity_threshold, found>>

ListAgents(io) ==
    LET r == list_agents(file, io)
    IN  /\ inited
        /\ last' = [NoCall EXCEPT !.op = "list_agents", !.pre = file, !.io = io,
                                  !.out = r.out,
                                  !.ret = IF r.is_list THEN "list" ELSE "not_a_list"]
        /\ UNCHANGED <<file, inited, req, pc, loc, query, snapshot,
                       similarity_threshold, found>>

GetAgent(name, io) ==
    /\ inited
    /\ last' = [NoCall EXCEPT !.op = "get_agent", !.name = <<name>>,
                              !.pre = file, !.io = io,
                              !.out = get_agent(file, name, io),
                              !.ret = "returned"]
    /\ UNCHANGED <<file, inited, req, pc, loc, query, snapshot,
                   similarity_threshold, found>>

GetStorageStats(io) ==
    /\ inited
    /\ last' = [NoCall EXCEPT !.op = "get_storage_stats", !.pre = file, !.io = io,
                              !.stats = get_storage_stats(file, io),
                              !.ret = "report"]
    /\ UNCHANGED <<file, inited, req, pc, loc, query, snapshot,
                   similarity_threshold, found>>

InitRegistry == IdleRegistry /\ IdleRequest /\ IdleCallers /\ IdleMatcher

NextRegistry ==
    \/ \E io \in IoOutcomes : Construct(io)
    \/ \E agent \in SaveInputs, io \in IoOutcomes : SaveAgent(agent, io)
    \/ \E name \in DeleteInputs, io \in IoOutcomes : DeleteAgent(name, io)
    \/ \E io \in {"ok", "read_fails"} : ListAgents(io)
    \/ \E io \in {"ok", "read_fails"} : GetStorageStats(io)
    \/ \E name \in DeleteInputs, io \in {"ok", "read_fails"} : GetAgent(name, io)

SpecRegistry == InitRegistry /\ [][NextRegistry]_vars

(***************************************************************************)
(* The matcher as a function of its inputs.                                *)
(***************************************************************************)
\* MathA under the name the fallback of _create_new_agent gives: the same
\* words after normalisation, so the same score as MathA for every query
MathALower == [name |-> TxtMath \o TxtAgentSuffix, description |-> TxtSolves, task_type |-> TxtMath]

\* the last one is a record whose text has no word longer than three characters
MatchAgents == {MathA, MathALower, PoemA, SqlA, [name |-> TxtSql]}

MatchQueries == {TxtEmpty, TxtAlgebraQuery, TxtPoemsQuery, TxtCatQuery, TxtDbQuery}

\* 0.05, the score of TxtCatQuery against SqlA, the default 0.09, 0.5, 1.0
MatchThresholds == {500, 788, DefaultThreshold, 5000, ScoreOne}

\* the longest snapshot handed to the matcher
MaxSnapshot == 2

SnapshotsUpTo(n) == UNION {[1..k -> MatchAgents] : k \in 0..n}

InitMatch ==
    /\ IdleRegistry /\ IdleRequest /\ IdleCallers
    /\ query \in MatchQueries
    /\ snapshot \in SnapshotsUpTo(MaxSnapshot)
    /\ similarity_threshold \in MatchThresholds
    /\ found = NoFound

FindSimilarAgent ==
    /\ ~found.done
    /\ found' = [found EXCEPT
                     !.done = TRUE,
                     !.agent = find_similar_agent(query, snapshot, similarity_threshold),
                     !.scored = ScorerCalls(query, snapshot)]
    /\ UNCHANGED <<file, inited, last, req, pc, loc, query, snapshot,
                   similarity_threshold>>

GetSimilarityScores ==
    /\ ~found.listed
    /\ found' = [found EXCEPT
                     !.listed = TRUE,
                     !.scores = get_similarity_scores(query, snapshot,
                                                      similarity_threshold)]
    /\ UNCHANGED <<file, inited, last, req, pc, loc, query, snapshot,
                   similarity_threshold>>

NextMatch == FindSimilarAgent \/ GetSimilarityScores

SpecMatch == InitMatch /\ [][NextMatch]_vars

(***************************************************************************)
(* Claims about the registry, one caller (SpecRegistry).                   *)
(***************************************************************************)
UniqueNames(agents) ==
    \A i, j \in 1..Len(agents) : NameOf(agents[i]) = NameOf(agents[j]) => i = j

SavedOk == last.op = "save_agent" /\ last.ret = "True"

\* the name of the record just saved is a name of the collection before the call
SavedNameCollides == NameOf(last.agent[1]) \in NamesIn(last.pre.agents)

\* C1: starting from an empty store, after any sequence of save_agent and
\* delete_agent calls the persisted collection holds at most one record per
\* name, and a save_agent whose name is already there leaves exactly one record
\* of that name, the one just saved, and adds none.
C1_OneRecordPerName ==
    /\ UniqueNames(file.agents)
    /\ (SavedOk /\ SavedNameCollides) =>
           /\ Len(file.agents) = Len(last.pre.agents)
           /\ Cardinality({i \in 1..Len(file.agents) :
                              NameOf(file.agents[i]) = NameOf(last.agent[1])}) = 1
           /\ \E i \in 1..Len(file.agents) : file.agents[i] = last.agent[1]

\* a save_agent with a colliding name and new content succeeded on a
\* collection of at least two records
C1_Witness ==
    /\ SavedOk /\ SavedNameCollides
    /\ Len(last.pre.agents) >= 2
    /\ \A i \in 1..Len(last.pre.agents) : last.pre.agents[i] # last.agent[1]

\* C5: a successful save_agent with a name already present puts the record at
\* the position the name had and keeps the length; a successful save_agent with
\* a name not present puts the record at the end and makes the collection
\* exactly one longer.
C5_UpsertReplacesOrAppends ==
    SavedOk =>
        IF SavedNameCollides
        THEN /\ Len(file.agents) = Len(last.pre.agents)
             /\ \E i \in 1..Len(last.pre.agents) :
                    /\ NameOf(last.pre.agents[i]) = NameOf(last.agent[1])
                    /\ file.agents[i] = last.agent[1]
        ELSE /\ Len(file.agents) = Len(last.pre.agents) + 1
             /\ file.agents[Len(file.agents)] = last.agent[1]

\* a successful save_agent replaced, with new content, a record that was not
\* the last of its collection
C5_Witness ==
    /\ SavedOk
    /\ \E i \in 1..(Len(last.pre.agents) - 1) :
           /\ NameOf(last.pre.agents[i]) = NameOf(last.agent[1])
           /\ last.pre.agents[i] # last.agent[1]
           /\ file.agents[i] = last.agent[1]

DeletedNamePresent == <<last.name[1]>> \in NamesIn(last.pre.agents)

\* C6: a delete_agent of a name present in the registry, when no file operation
\* of the call fails, returns True and leaves the collection exactly one record
\* shorter and without that name; a delete_agent of a name not present returns
\* False and leaves the persisted store as it was.
C6_DeleteResult ==
    last.op = "delete_agent" =>
        /\ (DeletedNamePresent /\ last.io = "ok") =>
               /\ last.ret = "True"
               /\ Len(file.agents) = Len(last.pre.agents) - 1
               /\ <<last.name[1]>> \notin NamesIn(file.agents)
        /\ ~DeletedNamePresent =>
               /\ last.ret = "False"
               /\ file = last.pre

\* a delete_agent removed one record of a collection of three
C6_Witness ==
    /\ last.op = "delete_agent" /\ last.ret = "True"
    /\ DeletedNamePresent
    /\ Len(last.pre.agents) = 3
    /\ Len(file.agents) = 2

\* C11: AgentStorage() over an absent file, when it returns, has created the
\* file holding an empty agents list; and after every save_agent and
\* delete_agent that returns True the file is an object whose "agents" value
\* is a list.
C11_StoreIsObjectWithAgentsList ==
    /\ (last.op = "init" /\ last.pre.kind = "absent" /\ last.ret = "returned") =>
           file = Store(<<>>)
    /\ (last.op \in {"save_agent", "delete_agent"} /\ last.ret = "True") =>
           /\ LoadError(file) = "none"
           /\ HasAgentsList(file)

\* the first save_agent over the file AgentStorage() created
C11_Witness ==
    /\ last.op = "save_agent" /\ last.ret = "True"
    /\ last.pre = Store(<<>>)
    /\ file.kind = "object" /\ Len(file.agents) = 1

\* C20: a save_agent or delete_agent one of whose file operations fails
\* returns False (it returns, it does not raise) and is not tried again: the
\* file is as it was before the call, or left incomplete by the json.dump
\* that failed.
C20_IoFailureReturnsFalse ==
    (last.op \in {"save_agent", "delete_agent"} /\ last.io # "ok") =>
        /\ last.ret = "False"
        /\ file \in {last.pre, Raw("incomplete")}

\* a save_agent whose json.dump failed over a collection of two
C20_Witness ==
    /\ last.op = "save_agent" /\ last.io = "dump_fails"
    /\ Len(last.pre.agents) = 2
    /\ last.ret = "False"
    /\ file = Raw("incomplete")

(***************************************************************************)
(* Claims about the matcher (SpecMatch).                                   *)
(***************************************************************************)
ScoresOf(q, agents) == {calculate_similarity(q, agents[i]) : i \in 1..Len(agents)}

MaxScoreOf(q, agents) ==
    CHOOSE m \in ScoresOf(q, agents) : \A s \in ScoresOf(q, agents) : s <= m

\* C4: for every query, non-empty snapshot and threshold, find_similar_agent
\* returns a record of maximal score when that score is >= the threshold, and
\* None when it is below the threshold.
C4_ReturnsBestAtOrAboveThreshold ==
    (found.done /\ snapshot # <<>>) =>
        LET m == MaxScoreOf(query, snapshot)
        IN  /\ m >= similarity_threshold =>
                /\ found.agent # <<>>
                /\ calculate_similarity(query, found.agent[1]) = m
            /\ m < similarity_threshold => found.agent = <<>>

\* the first position of the snapshot holding a record of maximal score
FirstBestIndex(q, agents) ==
    CHOOSE i \in 1..Len(agents) :
        /\ calculate_similarity(q, agents[i]) = MaxScoreOf(q, agents)
        /\ \A j \in 1..(i - 1) : calculate_similarity(q, agents[j]) # MaxScoreOf(q, agents)

\* several records of the snapshot hold the maximal score
TiedAtMax(q, agents) ==
    Cardinality({i \in 1..Len(agents) :
                    calculate_similarity(q, agents[i]) = MaxScoreOf(q, agents)}) > 1

\* C13: when several records of the snapshot share the maximal score and
\* that score is >= the threshold, find_similar_agent returns the first of
\* them in the order of the snapshot.
C13_TieKeepsFirst ==
    (/\ found.done
     /\ snapshot # <<>>
     /\ TiedAtMax(query, snapshot)
     /\ MaxScoreOf(query, snapshot) >= similarity_threshold) =>
        found.agent = <<snapshot[FirstBestIndex(query, snapshot)]>>

\* the same for maximal scores above the 0.09 the scan starts with
C13_TieKeepsFirstAboveInitial ==
    (/\ found.done
     /\ snapshot # <<>>
     /\ TiedAtMax(query, snapshot)
     /\ MaxScoreOf(query, snapshot) > InitialBestScore
     /\ MaxScoreOf(query, snapshot) >= similarity_threshold) =>
        found.agent = <<snapshot[FirstBestIndex(query, snapshot)]>>

\* two different records tie above 0.09 and the first is returned
C13_TieAboveInitialReached ==
    /\ found.done
    /\ Len(snapshot) = 2 /\ snapshot[1] # snapshot[2]
    /\ TiedAtMax(query, snapshot)
    /\ MaxScoreOf(query, snapshot) > InitialBestScore
    /\ found.agent = <<snapshot[1]>>

\* C14: for every query and threshold, find_similar_agent on an empty
\* snapshot returns None and calls _calculate_similarity not once.
C14_EmptySnapshotReturnsNone ==
    (found.done /\ snapshot = <<>>) =>
        /\ found.agent = <<>>
        /\ found.scored = 0

\* the matcher ran on an empty snapshot with a query and the lowest threshold
C14_Witness ==
    /\ found.done
    /\ snapshot = <<>>
    /\ query = TxtAlgebraQuery
    /\ similarity_threshold = 500

(***************************************************************************)
(* The registry constructed over a backing store that already exists.      *)
(***************************************************************************)
UnparsableKinds == {"incomplete", "garbage", "undecodable"}

MalformedKinds == NonObjectKinds \cup {"no_agents_key", "agents_not_list"}

\* the stores found at start-up: every kind of content, and well-formed
\* collections, one of them with a name held twice, one with records whose
\* task_type is missing or empty
FoundStores ==
    {Raw(k) : k \in {"absent"} \cup UnparsableKinds \cup MalformedKinds}
        \cup {Store(<<>>), Store(<<MathA>>), Store(<<MathA, PoemA>>),
              Store(<<MathA, PoemA, MathA2>>), Store(<<NoTypeA, EmptyTypeA>>)}

InitLoad ==
    /\ file \in FoundStores
    /\ inited = FALSE
    /\ last = NoCall
    /\ IdleRequest /\ IdleCallers /\ IdleMatcher

SpecLoad == InitLoad /\ [][NextRegistry]_vars

\* C10: constructing the registry over a store that is present but unparsable,
\* or parsable without a well-formed top-level agents list, does not raise
\* (no file operation failing) and leaves a persisted store holding an empty
\* agents list, which list_agents then returns.
C10_CorruptStoreIsReset ==
    (/\ last.op = "init"
     /\ last.io = "ok"
     /\ last.pre.kind \in UnparsableKinds \cup MalformedKinds) =>
        /\ last.ret = "returned"
        /\ file = Store(<<>>)
        /\ list_agents(file, "ok") = [out |-> <<>>, is_list |-> TRUE]

\* C12: whenever get_storage_stats is called on a constructed registry, the
\* total it reports is the length of what list_agents returns (a list), and
\* the counts per type sum to that total.
C12_StatsAgreeWithList ==
    last.op = "get_storage_stats" =>
        LET listed == list_agents(file, last.io)
        IN  /\ listed.is_list
            /\ last.stats.total = Len(listed.out)
            /\ SumOver(DOMAIN last.stats.by_type, last.stats.by_type) = last.stats.total

(***************************************************************************)
(* master_agent.py: the steps of process_request                           *)
(*                                                                         *)
(* The three calls of the generative model are inputs.  An outcome is a    *)
(* record [kind, d, e]: kind "raise" (the call raises e), "empty"          *)
(* (response.text is empty), "unparsable" (json.loads raises),             *)
(* "non_object" (json.loads returns a value that is no dict), "object"     *)
(* (json.loads returns the dict d) or, for the two answering calls, "text".*)
(* A dict is a record; the empty record << >> is the empty dict.           *)
(***************************************************************************)
Outcome(kind) == [kind |-> kind, d |-> <<>>, e |-> ""]

Raises(e) == [kind |-> "raise", d |-> <<>>, e |-> e]

Object(d) == [kind |-> "object", d |-> d, e |-> ""]

NotCalled == Outcome("not_called")

\* dict.get(key, default)
Get(d, key, default) == IF key \in DOMAIN d THEN d[key] ELSE default

\* _analyze_task lines 114-119
FallbackAnalysis ==
    [task_type |-> TxtGeneral, agent_description |-> TxtGeneralPurpose,
     complexity |-> "simple", requires_delegation |-> FALSE]

\* _analyze_task: the value returned; is_dict is FALSE when json.loads handed
\* back a value that is no dict
analyze_task(an) ==
    CASE an.kind \in {"raise", "empty", "unparsable"} ->
             [is_dict |-> TRUE, d |-> FallbackAnalysis, fallback |-> TRUE]
      [] an.kind = "non_object" -> [is_dict |-> FALSE, d |-> <<>>, fallback |-> FALSE]
      [] OTHER -> [is_dict |-> TRUE, d |-> an.d, fallback |-> FALSE]

\* a fallback whose name is the task_type alone
FallbackAgentNoSuffix(task_analysis) ==
    [name |-> Get(task_analysis, "task_type", TxtGeneralCap),
     description |-> Get(task_analysis, "agent_description", TxtGeneralPurpose),
     system_prompt |-> TxtPromptHead \o Get(task_analysis, "task_type", TxtGeneralTasks)
                           \o TxtPromptTail,
     task_type |-> Get(task_analysis, "task_type", TxtGeneral),
     created_by |-> TxtMasterAgent]

\* a fallback that does not look at the task analysis
FallbackAgentGeneric(task_analysis) ==
    [name |-> TxtGeneralCap \o TxtAgentSuffix,
     description |-> TxtGeneralPurpose,
     system_prompt |-> TxtPromptHead \o TxtGeneralTasks \o TxtPromptTail,
     task_type |-> TxtGeneral,
     created_by |-> TxtMasterAgent]

\* _create_new_agent lines 204-210
FallbackAgent(task_analysis) ==
    [name |-> Get(task_analysis, "task_type", TxtGeneralCap) \o TxtAgentSuffix,
     description |-> Get(task_analysis, "agent_description", TxtGeneralPurpose),
     system_prompt |-> TxtPromptHead \o Get(task_analysis, "task_type", TxtGeneralTasks)
                           \o TxtPromptTail,
     task_type |-> Get(task_analysis, "task_type", TxtGeneral),
     created_by |-> TxtMasterAgent]

\* agent_data['created_by'] = 'MasterAgent'
WithCreatedBy(d) ==
    [k \in DOMAIN d \cup {"created_by"} |->
        IF k = "created_by" THEN TxtMasterAgent ELSE d[k]]

\* _create_new_agent: the record returned
create_new_agent(task_analysis, cr) ==
    IF cr.kind = "object"
    THEN [agent |-> WithCreatedBy(cr.d), fallback |-> FALSE]
    ELSE [agent |-> FallbackAgent(task_analysis), fallback |-> TRUE]

\* a reply: the format string of the source and what is put into it
Reply(fmt, name, e) == [fmt |-> fmt, name |-> name, e |-> e]

\* _delegate_task lines 236-249
delegate_task(agent, rs) ==
    CASE rs.kind = "raise" ->
             Reply("Error occurred while delegating to {agent.get('name')}: {e}",
                   NameOf(agent), rs.e)
      [] rs.kind = "empty" ->
             Reply("The specialized agent was unable to provide a response.", <<>>, "")
      [] OTHER -> Reply("{response.text}", <<>>, "")

\* _handle_directly lines 269-282
handle_directly(rs) ==
    CASE rs.kind = "raise" -> Reply("I encountered an error: {e}", <<>>, rs.e)
      [] rs.kind = "empty" ->
             Reply("I'm unable to process your request at the moment.", <<>>, "")
      [] OTHER -> Reply("{response.text}", <<>>, "")

\* process_request lines 67-69
OuterErrorReply(e) ==
    Reply("I encountered an error while processing your request: {e}", <<>>, e)

\* the trace of a request before anything but the Analyzer has been called
TraceAfterAnalysis(an) ==
    [an |-> an.kind, cr |-> "not_called", rs |-> "not_called",
     is_dict |-> analyze_task(an).is_dict,
     analysis |-> analyze_task(an).d,
     analysis_fallback |-> analyze_task(an).fallback,
     path |-> "aborted", calls |-> <<"Analyzer">>,
     agent |-> <<>>, agent_fallback |-> FALSE, save_ret |-> "not_called",
     list_io |-> "not_called",
     reply |-> Reply("", <<>>, ""), outer |-> "none"]

\* _find_or_create_agent lines 134-140: list_agents and find_similar_agent
search_existing(f, threshold, task_analysis, ioList) ==
    LET listed == list_agents(f, ioList)
    IN  [is_list |-> listed.is_list,
         io |-> ioList,
         existing |-> IF listed.is_list
                      THEN find_similar_agent(
                               Get(task_analysis, "agent_description", <<>>),
                               listed.out, threshold)
                      ELSE <<>>]

\* a _find_or_create_agent without its lines 151-152: the record is not saved
SaveCreatedSkipped(f, agent, ioSave) == [file |-> f, ret |-> "not_called"]

\* _find_or_create_agent lines 151-152: "if new_agent:" is false for the empty
\* dict only; the value save_agent returns is not looked at
SaveCreated(f, agent, ioSave) ==
    IF agent = <<>>
    THEN [file |-> f, ret |-> "not_called"]
    ELSE [file |-> save_agent(f, agent, ioSave).file,
          ret |-> IF save_agent(f, agent, ioSave).ret THEN "True" ELSE "False"]

\* _find_or_create_agent lines 131-132: return None, nothing is called
NoAgentNeeded(f) ==
    [file |-> f, agent |-> <<>>, raised |-> "none", path |-> "direct",
     calls |-> <<>>, cr |-> "not_called", agent_fallback |-> FALSE,
     save_ret |-> "not_called", list_io |-> "not_called"]

\* _find_or_create_agent lines 134-156, for a task analysis that asks for
\* delegation
find_or_create_delegated(f, task_analysis, searched, cr, ioSave) ==
    LET none == NoAgentNeeded(f)
        created == create_new_agent(task_analysis, cr)
        saved == SaveCreated(f, created.agent, ioSave)
    IN  IF ~searched.is_list
        \* "for agent in agents" over a value that is no list: TypeError
        THEN [none EXCEPT !.raised = "TypeError", !.path = "aborted",
                          !.list_io = searched.io,
                          !.calls = <<"list_agents", "find_similar_agent">>]
        ELSE IF searched.existing # <<>>
        THEN [none EXCEPT !.agent = searched.existing, !.path = "reuse",
                          !.list_io = searched.io,
                          !.calls = <<"list_agents", "find_similar_agent">>,
                          \* existing_agent['name'] of line 143
                          !.raised = IF NameOf(searched.existing[1]) = <<>>
                                     THEN "KeyError" ELSE "none"]
        ELSE [none EXCEPT !.file = saved.file, !.agent = <<created.agent>>,
                          !.path = "create", !.cr = cr.kind,
                          !.list_io = searched.io,
                          !.agent_fallback = created.fallback,
                          !.save_ret = saved.ret,
                          !.calls = <<"list_agents", "find_similar_agent", "Creator">>
                                        \o IF saved.ret = "not_called" THEN <<>>
                                           ELSE <<"save_agent">>,
                          \* new_agent['name'] of line 153
                          !.raised = IF NameOf(created.agent) = <<>>
                                     THEN "KeyError" ELSE "none"]

\* a _find_or_create_agent without the test of lines 131-132
FindOrCreateAlwaysDelegates(f, task_analysis, searched, cr, ioSave) ==
    find_or_create_delegated(f, task_analysis, searched, cr, ioSave)

\* _find_or_create_agent for the dict task_analysis, searched being the outcome
\* of its search: the file afterwards, the agent returned (<<>> for None), the
\* exception that leaves the method ("none": it returns) and the calls made
find_or_create_agent(f, task_analysis, searched, cr, ioSave) ==
    IF ~Get(task_analysis, "requires_delegation", FALSE)
    THEN NoAgentNeeded(f)
    ELSE find_or_create_delegated(f, task_analysis, searched, cr, ioSave)

\* process_request: the file afterwards and the trace of the request
process_request(f, an, searched, cr, rs, ioSave) ==
    LET ta == analyze_task(an)
        t0 == TraceAfterAnalysis(an)
        foc == find_or_create_agent(f, ta.d, searched, cr, ioSave)
        t1 == [t0 EXCEPT !.path = foc.path, !.cr = foc.cr, !.agent = foc.agent,
                         !.agent_fallback = foc.agent_fallback,
                         !.save_ret = foc.save_ret,
                         !.list_io = foc.list_io,
                         !.calls = t0.calls \o foc.calls]
    IN  IF ~ta.is_dict
        \* task_analysis.get of line 131 on a value that is no dict
        THEN [file |-> f,
              trace |-> [t0 EXCEPT !.outer = "AttributeError",
                                   !.reply = OuterErrorReply("AttributeError")]]
        ELSE IF foc.raised # "none"
        THEN [file |-> foc.file,
              trace |-> [t1 EXCEPT !.outer = foc.raised,
                                   !.reply = OuterErrorReply(foc.raised)]]
        ELSE IF foc.agent # <<>>
        THEN [file |-> foc.file,
              trace |-> [t1 EXCEPT !.rs = rs.kind,
                                   !.calls = t1.calls \o <<"Responder">>,
                                   !.reply = delegate_task(foc.agent[1], rs)]]
        ELSE [file |-> foc.file,
              trace |-> [t1 EXCEPT !.rs = rs.kind,
                                   !.calls = t1.calls \o <<"DirectResponder">>,
                                   !.reply = handle_directly(rs)]]

(***************************************************************************)
(* Inputs of process_request.                                              *)
(***************************************************************************)
\* an answer of the Creator
CreatedPoemA ==
    [name |-> TxtPoemAgent, description |-> TxtWritesPoems,
     system_prompt |-> TxtPromptTail, task_type |-> TxtCreative]

Descriptors ==
    {[task_type |-> TxtMath, agent_description |-> TxtArith,
      complexity |-> "simple", requires_delegation |-> TRUE],
     [task_type |-> TxtMath, agent_description |-> TxtEmpty,
      complexity |-> "simple", requires_delegation |-> TRUE],
     [task_type |-> TxtMath, agent_description |-> TxtArith,
      complexity |-> "simple", requires_delegation |-> FALSE],
     <<>>}

AnalyzerOutcomes ==
    {Raises("quota"), Outcome("empty"), Outcome("unparsable"), Outcome("non_object")}
        \cup {Object(d) : d \in Descriptors}

CreatorOutcomes ==
    {Raises("quota"), Outcome("empty"), Outcome("non_object"),
     Object(CreatedPoemA), Object(<<>>)}

\* the longest collection the requests are driven to
MaxStored == 2

\* the file operations of save_agent that fail during a request
SaveIoOutcomes == {"ok", "read_fails", "dump_fails"}

ResponderOutcomes ==
    {Raises("quota"), Raises("timeout"), Outcome("empty"), Outcome("text")}

(***************************************************************************)
(* The master agent, one caller: every request runs from start to end.     *)
(***************************************************************************)
\* req is << >> before the first request, then <<trace, turn>>: the trace of
\* the last request, and a bit that flips with every request
Turn == IF req = <<>> THEN 0 ELSE req[2]

\* the inputs of the calls a request does not make are NotCalled and "ok"
ProcessRequest ==
    /\ inited
    /\ \E an \in AnalyzerOutcomes, ioList \in {"ok", "read_fails"} :
         \E searched \in {search_existing(file, similarity_threshold,
                                          analyze_task(an).d, ioList)} :
           \E path \in {IF ~analyze_task(an).is_dict THEN "aborted"
                        ELSE find_or_create_agent(file, analyze_task(an).d, searched,
                                                  NotCalled, "ok").path} :
             /\ path \in {"aborted", "direct"} => ioList = "ok"
             /\ \E cr \in IF path = "create" THEN CreatorOutcomes ELSE {NotCalled},
                   ioSave \in IF path = "create" THEN SaveIoOutcomes ELSE {"ok"},
                   rs \in ResponderOutcomes \cup {NotCalled} :
                  \E r \in {process_request(file, an, searched, cr, rs, ioSave)} :
                      /\ (rs = NotCalled) = (r.trace.outer # "none")
                      /\ Len(r.file.agents) <= MaxStored
                      /\ file' = r.file
                      /\ req' = <<r.trace, 1 - Turn>>
    /\ UNCHANGED <<inited, last, pc, loc, query, snapshot, similarity_threshold, found>>

\* MasterAgent(): __init__ constructs the AgentStorage; when that raises, no
\* master agent exists until a later construction succeeds
MasterAgentInit(io) ==
    LET r == ensure_storage_file(file, io)
    IN  /\ file' = r.file
        /\ inited' = ~r.raises
        /\ UNCHANGED <<last, req, pc, loc, query, snapshot, similarity_threshold, found>>

\* MasterAgent() over an absent store
InitOrch ==
    /\ file = Store(<<>>)
    /\ inited = TRUE
    /\ last = NoCall
    /\ IdleRequest /\ IdleCallers /\ IdleMatcher

NextOrch ==
    \/ ProcessRequest
    \/ \E io \in IoOutcomes : MasterAgentInit(io)

SpecOrch == InitOrch /\ [][NextOrch]_vars

(***************************************************************************)
(* Several callers at once.  A call is a sequence of steps, and the steps  *)
(* of different callers interleave.  The steps are the file operations:    *)
(* open(..., 'r') with json.load reads the whole file, open(..., 'w')      *)
(* truncates it, json.dump with the closing of the file writes the new     *)
(* content.  No lock is taken anywhere in agent_storage.py or              *)
(* master_agent.py.  A caller can stop for good between two steps (the     *)
(* process is killed, the request is cancelled).                           *)
(***************************************************************************)
NumCallers == 2

Callers == 1..NumCallers

NoLocal ==
    [op |-> "none", agent |-> <<>>, name |-> <<>>, pre |-> Raw("absent"),
     data |-> <<>>, ret |-> "none", out |-> <<>>, existing |-> <<>>,
     cr |-> "not_called"]

ConcStores == {Store(<<>>), Store(<<MathA>>), Store(<<MathA, PoemA>>)}

ConcSaveInputs == {MathA2, SqlA}

ConcDeleteInputs == {TxtMathAgent, TxtPoemAgent}

\* the task analysis of the concurrent requests: the same missing capability
ConcAnalysis ==
    [task_type |-> TxtMath, agent_description |-> TxtArith,
     complexity |-> "simple", requires_delegation |-> TRUE]

\* an answer of the Creator for that capability
CreatedArithA ==
    [name |-> TxtMathAgent, description |-> TxtArith,
     system_prompt |-> TxtPromptTail, task_type |-> TxtMath]

ConcCreatorOutcomes == {Raises("quota"), Object(CreatedArithA)}

Goto(p, where) == pc' = [pc EXCEPT ![p] = where]

\* save_agent(agent) is called
StartSave(p, agent) ==
    /\ pc[p] = "idle"
    /\ Goto(p, "save_read")
    /\ loc' = [loc EXCEPT ![p] = [NoLocal EXCEPT !.op = "save_agent",
                                                 !.agent = <<agent>>, !.pre = file]]
    /\ UNCHANGED <<file, inited, last, req, query, snapshot, similarity_threshold, found>>

\* delete_agent(name) is called
StartDelete(p, name) ==
    /\ pc[p] = "idle"
    /\ Goto(p, "delete_read")
    /\ loc' = [loc EXCEPT ![p] = [NoLocal EXCEPT !.op = "delete_agent",
                                                 !.name = <<name>>, !.pre = file]]
    /\ UNCHANGED <<file, inited, last, req, query, snapshot, similarity_threshold, found>>

\* list_agents() is called
StartList(p) ==
    /\ pc[p] = "idle"
    /\ Goto(p, "list_read")
    /\ loc' = [loc EXCEPT ![p] = [NoLocal EXCEPT !.op = "list_agents", !.pre = file]]
    /\ UNCHANGED <<file, inited, last, req, query, snapshot, similarity_threshold, found>>

\* _find_or_create_agent(ConcAnalysis) is called by process_request
StartRequest(p) ==
    /\ pc[p] = "idle"
    /\ Goto(p, "search")
    /\ loc' = [loc EXCEPT ![p] = [NoLocal EXCEPT !.op = "request", !.pre = file]]
    /\ UNCHANGED <<file, inited, last, req, query, snapshot, similarity_threshold, found>>

\* save_agent lines 61-78: load, then update or append in memory
SaveRead(p) ==
    /\ pc[p] = "save_read"
    /\ IF LoadError(file) # "none" \/ ~HasAgentsList(file)
       THEN /\ Goto(p, "done")
            /\ loc' = [loc EXCEPT ![p].ret = "False"]
       ELSE /\ Goto(p, "open_w")
            /\ loc' = [loc EXCEPT ![p].data = Upserted(file.agents, loc[p].agent[1])]
    /\ UNCHANGED <<file, inited, last, req, query, snapshot, similarity_threshold, found>>

\* delete_agent lines 142-150: load, then filter in memory
DeleteRead(p) ==
    /\ pc[p] = "delete_read"
    /\ IF \/ LoadError(file) # "none" \/ ~HasAgentsList(file)
          \/ Len(Without(file.agents, loc[p].name[1])) = Len(file.agents)
       THEN /\ Goto(p, "done")
            /\ loc' = [loc EXCEPT ![p].ret = "False"]
       ELSE /\ Goto(p, "open_w")
            /\ loc' = [loc EXCEPT ![p].data = Without(file.agents, loc[p].name[1])]
    /\ UNCHANGED <<file, inited, last, req, query, snapshot, similarity_threshold, found>>

\* open(self.storage_file, 'w') of lines 81 and 152: the file is truncated
OpenW(p) ==
    /\ pc[p] = "open_w"
    /\ Goto(p, "dump")
    /\ file' = Raw("incomplete")
    /\ UNCHANGED <<inited, last, req, loc, query, snapshot, similarity_threshold, found>>

\* json.dump(data, f) of lines 82 and 153, and the file is closed
Dump(p) ==
    /\ pc[p] = "dump"
    /\ Goto(p, "done")
    /\ file' = Store(loc[p].data)
    /\ loc' = [loc EXCEPT ![p].ret = "True"]
    /\ UNCHANGED <<inited, last, req, query, snapshot, similarity_threshold, found>>

\* list_agents lines 121-129
ListRead(p) ==
    /\ pc[p] = "list_read"
    /\ Goto(p, "done")
    /\ loc' = [loc EXCEPT ![p].out = list_agents(file, "ok").out, ![p].ret = "list"]
    /\ UNCHANGED <<file, inited, last, req, query, snapshot, similarity_threshold, found>>

\* _find_or_create_agent lines 134-145: list_agents, find_similar_agent
RequestSearch(p) ==
    /\ pc[p] = "search"
    /\ \E searched \in {search_existing(file, similarity_threshold, ConcAnalysis, "ok")} :
         /\ loc' = [loc EXCEPT ![p].existing = searched.existing,
                               ![p].out = list_agents(file, "ok").out]
         /\ Goto(p, IF searched.existing # <<>> THEN "done" ELSE "create")
    /\ UNCHANGED <<file, inited, last, req, query, snapshot, similarity_threshold, found>>

\* _find_or_create_agent lines 149-152: the Creator answers, save_agent is called
RequestCreate(p, cr) ==
    /\ pc[p] = "create"
    /\ Goto(p, "save_read")
    /\ loc' = [loc EXCEPT ![p].agent = <<create_new_agent(ConcAnalysis, cr).agent>>,
                          ![p].cr = cr.kind,
                          ![p].pre = file]
    /\ UNCHANGED <<file, inited, last, req, query, snapshot, similarity_threshold, found>>

\* the caller stops for good in the middle of a call
Crash(p) ==
    /\ pc[p] \notin {"idle", "done", "crashed"}
    /\ Goto(p, "crashed")
    /\ UNCHANGED <<file, inited, last, req, loc, query, snapshot, similarity_threshold, found>>

InitConc ==
    /\ file \in ConcStores
    /\ inited = TRUE
    /\ last = NoCall
    /\ IdleRequest /\ IdleMatcher
    /\ pc = [p \in Callers |-> "idle"]
    /\ loc = [p \in Callers |-> NoLocal]

NextConc ==
    \E p \in Callers :
        \/ \E agent \in ConcSaveInputs : StartSave(p, agent)
        \/ \E name \in ConcDeleteInputs : StartDelete(p, name)
        \/ StartList(p)
        \/ StartRequest(p)
        \/ SaveRead(p)
        \/ DeleteRead(p)
        \/ OpenW(p)
        \/ Dump(p)
        \/ ListRead(p)
        \/ RequestSearch(p)
        \/ \E cr \in ConcCreatorOutcomes : RequestCreate(p, cr)
        \/ Crash(p)

SpecConc == InitConc /\ [][NextConc]_vars


(***************************************************************************)
(* Claims about process_request, checked under SpecOrch.                   *)
(***************************************************************************)
AnalyzerFailures == {"raise", "empty", "unparsable", "non_object"}

CreatorFailures == {"raise", "empty", "non_object"}

\* C3: every call of process_request ends with a text reply, no exception
\* reaches the handler around the whole request, and every failure of a
\* collaborator (it raises, answers nothing, answers something malformed) is
\* replaced at its call site by the fallback of that step: the default task
\* analysis for the Analyzer, the fallback record for the Creator, the
\* fallback sentence for the Responder.
C3_FailuresReplacedByFallbacks ==
    req # <<>> =>
        LET t == req[1]
        IN  /\ t.reply.fmt # ""
            /\ t.outer = "none"
            /\ t.an \in AnalyzerFailures =>
                   /\ t.is_dict
                   /\ t.analysis = FallbackAnalysis
                   /\ t.path = "direct"
            /\ (t.path = "create" /\ (t.cr \in CreatorFailures \/ NameOf(t.agent[1]) = <<>>)) =>
                   t.agent = <<FallbackAgent(t.analysis)>>
            /\ t.rs \in {"raise", "empty"} =>
                   t.reply = IF t.agent # <<>>
                             THEN delegate_task(t.agent[1], [kind |-> t.rs, d |-> <<>>, e |-> t.reply.e])
                             ELSE handle_directly([kind |-> t.rs, d |-> <<>>, e |-> t.reply.e])

\* C15: whenever the Analyzer raises, answers nothing, or answers something
\* malformed (unparsable, or parsable but no object), the task analysis the
\* rest of the request uses is the fallback analysis of _analyze_task.
C15_AnalyzerFailureGivesDefault ==
    (req # <<>> /\ req[1].an \in AnalyzerFailures) =>
        /\ req[1].is_dict
        /\ req[1].analysis_fallback
        /\ req[1].analysis = FallbackAnalysis

\* the record the claims give for the task analysis d when the Creator fails
ExpectedFallback(d) ==
    [name |-> d.task_type \o TxtAgentSuffix,
     description |-> d.agent_description,
     system_prompt |-> TxtPromptHead \o d.task_type \o TxtPromptTail,
     task_type |-> d.task_type,
     created_by |-> TxtMasterAgent]

\* C16: whenever the Creator raises or answers nothing on the create path
\* (the task analysis holding a task_type and an agent_description), the
\* record used is: name = task_type followed by "Agent", description = the
\* agent_description, system_prompt = the generic sentence naming the
\* task_type, task_type = the task_type, created_by = "MasterAgent".
C16_CreatorFailureGivesFallback ==
    (/\ req # <<>>
     /\ req[1].path = "create"
     /\ req[1].cr \in {"raise", "empty"}
     /\ {"task_type", "agent_description"} \subseteq DOMAIN req[1].analysis) =>
        /\ req[1].agent_fallback
        /\ req[1].agent = <<ExpectedFallback(req[1].analysis)>>

\* the Creator answered nothing for "arithmetic helper" and mathAgent was used
C16_Witness ==
    /\ req # <<>>
    /\ req[1].path = "create"
    /\ req[1].cr = "empty"
    /\ req[1].analysis.agent_description = TxtArith
    /\ req[1].agent # <<>>
    /\ NameOf(req[1].agent[1]) = <<TxtMath \o TxtAgentSuffix>>

PositionsOf(calls, c) == {i \in 1..Len(calls) : calls[i] = c}

\* C17: on every request that takes the create path the new record is passed
\* to save_agent exactly once, and no Responder is called before that.
C17_CreatedRecordIsUpsertedFirst ==
    (req # <<>> /\ req[1].path = "create") =>
        /\ Cardinality(PositionsOf(req[1].calls, "save_agent")) = 1
        /\ req[1].save_ret # "not_called"
        /\ \A i \in PositionsOf(req[1].calls, "Responder"),
              j \in PositionsOf(req[1].calls, "save_agent") : j < i

\* a record the Creator answered was saved and then delegated to
C17_Witness ==
    /\ req # <<>>
    /\ req[1].path = "create"
    /\ req[1].cr = "object"
    /\ req[1].save_ret = "True"
    /\ req[1].rs = "text"
    /\ PositionsOf(req[1].calls, "Responder") # {}

\* C18: when the Responder raises or answers nothing, the reply of the
\* delegate step names the agent and holds nothing of the failure; the
\* reply of the direct step holds nothing of the failure.
C18_FixedApology ==
    (req # <<>> /\ req[1].rs \in {"raise", "empty"}) =>
        /\ req[1].reply.e = ""
        /\ req[1].path \in {"reuse", "create"} =>
               req[1].reply.name = NameOf(req[1].agent[1])

\* the last request went through create with the Creator failing, its
\* fallback record was saved and is in the registry, and the step is the next
\* request, with the same task analysis and a list_agents that reads the file
NextRequestRepeatsFallback ==
    /\ req # <<>>
    /\ req' # req
    /\ req[1].path = "create"
    /\ req[1].cr \in {"raise", "empty"}
    /\ req[1].save_ret = "True"
    /\ file.kind = "object"
    /\ req[1].agent[1] \in Range(file.agents)
    /\ req'[1].an = "object"
    /\ req'[1].analysis = req[1].analysis
    /\ req'[1].list_io = "ok"

\* the step is served by reuse: no Creator call, no longer registry
ServedByReuse ==
    /\ req'[1].path = "reuse"
    /\ req'[1].agent # <<>>
    /\ req'[1].cr = "not_called"
    /\ PositionsOf(req'[1].calls, "Creator") = {}
    /\ Len(file'.agents) = Len(file.agents)

\* the agent_description scores above the 0.09 of the scan against the
\* fallback record of its own task analysis
ScoresAgainstOwnFallback(d) ==
    calculate_similarity(d.agent_description, ExpectedFallback(d)) > InitialBestScore

\* C19 as stated: after a request went through create with the Creator
\* failing and its fallback record saved, the next request with the same task
\* analysis, whatever its agent_description, an empty one included, is served
\* by reuse.
C19_NextIdenticalRequestReuses ==
    [][NextRequestRepeatsFallback => ServedByReuse]_vars

\* C19 amended: the same for a task analysis whose agent_description scores
\* above 0.09 against its own fallback record.
C19_NextScoringRequestReuses ==
    [][(NextRequestRepeatsFallback /\ ScoresAgainstOwnFallback(req[1].analysis))
           => ServedByReuse]_vars

\* a request was served by the fallback record of its own task analysis
C19_Witness ==
    /\ req # <<>>
    /\ req[1].path = "reuse"
    /\ req[1].an = "object"
    /\ req[1].analysis.agent_description = TxtArith
    /\ req[1].agent = <<ExpectedFallback(req[1].analysis)>>
    /\ req[1].rs = "text"

(***************************************************************************)
(* Claims about concurrent callers, checked under SpecConc.                *)
(***************************************************************************)
Mutations == {"save_agent", "delete_agent"}

\* the other callers have not called anything
OnlyCallers(S) == \A r \in Callers \ S : pc[r] = "idle"

\* the collection a mutation leaves when it runs alone over loc[p].pre
PostOf(p) ==
    IF loc[p].op = "delete_agent"
    THEN Without(loc[p].pre.agents, loc[p].name[1])
    ELSE Upserted(loc[p].pre.agents, loc[p].agent[1])

\* the name a mutation is about, as NameOf gives it
TargetName(p) ==
    IF loc[p].op = "delete_agent" THEN loc[p].name ELSE NameOf(loc[p].agent[1])

\* the file holds what the mutation of p asked for
Reflected(p) ==
    /\ LoadError(file) = "none" /\ HasAgentsList(file)
    /\ IF loc[p].op = "delete_agent"
       THEN loc[p].name \notin NamesIn(file.agents)
       ELSE loc[p].agent[1] \in Range(file.agents)

\* the record matches the capability of the concurrent requests
MatchesCapability(agent) ==
    find_similar_agent(ConcAnalysis.agent_description, <<agent>>, DefaultThreshold) # <<>>

\* the request of p found no match, created a record and upserted it
CreatedAndUpserted(p) ==
    /\ loc[p].op = "request"
    /\ pc[p] = "done"
    /\ loc[p].existing = <<>>
    /\ loc[p].ret = "True"

\* C2: two requests for the same missing capability, each creating a record
\* that matches the capability, never both find no match and both create and
\* upsert a record.
C2_MatchDecideCreateAtomic ==
    \A p, q \in Callers :
        (/\ p # q
         /\ CreatedAndUpserted(p)
         /\ CreatedAndUpserted(q)
         /\ MatchesCapability(loc[p].agent[1])
         /\ MatchesCapability(loc[q].agent[1])) => FALSE

\* C7: when a caller stops for good in the middle of an upsert or a delete
\* (nobody else uses the registry), the file holds the complete collection
\* from before the call or the complete collection after it.
C7_CrashLeavesCompleteStore ==
    \A p \in Callers :
        (/\ pc[p] = "crashed"
         /\ loc[p].op \in Mutations
         /\ OnlyCallers({p})) =>
            file \in {loc[p].pre, Store(PostOf(p))}

\* C8: list_agents running concurrently with one upsert or delete returns
\* the collection from before that mutation or the collection after it.
C8_ReadSeesBeforeOrAfter ==
    \A p, q \in Callers :
        (/\ p # q
         /\ loc[p].op = "list_agents" /\ pc[p] = "done"
         /\ loc[q].op \in Mutations
         /\ OnlyCallers({p, q})) =>
            loc[p].out \in {loc[q].pre.agents, PostOf(q)}

\* C9: when two mutations of distinct names, one of them at least an upsert,
\* run concurrently and both return True, the file reflects both.
C9_BothMutationsReflected ==
    \A p, q \in Callers :
        (/\ p # q
         /\ pc[p] = "done" /\ pc[q] = "done"
         /\ loc[p].op = "save_agent" /\ loc[q].op \in Mutations
         /\ loc[p].ret = "True" /\ loc[q].ret = "True"
         /\ TargetName(p) # TargetName(q)
         /\ OnlyCallers({p, q})) =>
            Reflected(p) /\ Reflected(q)


(***************************************************************************)
(* Claims about the registry after its construction (SpecRegistry,         *)
(* SpecLoad).                                                              *)
(***************************************************************************)
RegistryOps == {"save_agent", "delete_agent", "list_agents", "get_storage_stats"}

\* the store the call found cannot be loaded as an object with an agents list
FoundCorrupt == last.pre.kind \in UnparsableKinds \cup MalformedKinds

\* C21: when a call of list_agents, save_agent, delete_agent or
\* get_storage_stats on a constructed registry finds the store unparsable or
\* structurally invalid (no file operation of the call failing), the store
\* afterwards is a persisted collection, empty but for the record a
\* save_agent has just put in, the call does not report a failure, and a
\* save_agent returns True.
C21_CorruptionHealedByNextOperation ==
    (/\ inited
     /\ last.op \in RegistryOps
     /\ last.io = "ok"
     /\ FoundCorrupt) =>
        /\ file.kind = "object"
        /\ file.agents = IF last.op = "save_agent" THEN <<last.agent[1]>> ELSE <<>>
        /\ last.op = "save_agent" => last.ret = "True"
        /\ last.op = "list_agents" => last.ret = "list" /\ last.out = <<>>
        /\ last.op = "get_storage_stats" => ~last.stats.error

\* the records get_storage_stats counts: self.list_agents() of line 196
CountedAgents == list_agents(last.pre, last.io).out

\* the positions of the counted records whose task_type is absent or ""
BlankTypePositions ==
    {i \in 1..Len(CountedAgents) :
        \/ "task_type" \notin DOMAIN CountedAgents[i]
        \/ CountedAgents[i].task_type = TxtEmpty}

\* C25: in the report of get_storage_stats, the records whose task_type is
\* absent or the empty string are all counted under "unknown", and no count
\* is kept under the empty string.
C25_BlankTypeCountedAsUnknown ==
    (last.op = "get_storage_stats" /\ ~last.stats.error /\ BlankTypePositions # {}) =>
        /\ TxtUnknown \in DOMAIN last.stats.by_type
        /\ last.stats.by_type[TxtUnknown] >= Cardinality(BlankTypePositions)
        /\ TxtEmpty \notin DOMAIN last.stats.by_type

\* the load inside get_storage_stats (list_agents lines 121-123) fails
StatsLoadFails == last.io = "read_fails" \/ LoadError(last.pre) # "none"

\* C26: get_storage_stats always returns a report, and when the store cannot
\* be loaded at the call (missing, unreadable, unparsable) the report has
\* total_agents 0, an empty agents_by_type and an "error" entry.
C26_StatsReportsFailedLoad ==
    last.op = "get_storage_stats" =>
        /\ last.ret = "report"
        /\ StatsLoadFails =>
              /\ last.stats.total = 0
              /\ DOMAIN last.stats.by_type = {}
              /\ last.stats.error

\* the records of one name that both collections hold keep their order, and
\* a name only the second collection holds comes after all the others
OrderKept(before, after) ==
    /\ \A i, j \in 1..Len(before), i2, j2 \in 1..Len(after) :
           (/\ i < j
            /\ NameOf(after[i2]) = NameOf(before[i])
            /\ NameOf(after[j2]) = NameOf(before[j])) => i2 < j2
    /\ \A i2, j2 \in 1..Len(after) :
           (/\ NameOf(after[i2]) \in NamesIn(before)
            /\ NameOf(after[j2]) \notin NamesIn(before)) => i2 < j2

\* C29: a save_agent that returns True changes only the record of the name
\* saved: every other record keeps its content and its position, and a new
\* name goes to the end; no call reorders the names that stay, so the stored
\* order is the order in which the surviving names were first inserted; and
\* list_agents returns the records in stored order.
C29_UpsertKeepsOthersInPlace ==
    [][/\ (last'.op = "save_agent" /\ last'.ret = "True") =>
              /\ Len(file'.agents) >= Len(file.agents)
              /\ \A i \in 1..Len(file.agents) :
                     NameOf(file.agents[i]) # NameOf(last'.agent[1]) =>
                         file'.agents[i] = file.agents[i]
              /\ \A i \in (Len(file.agents) + 1)..Len(file'.agents) :
                     file'.agents[i] = last'.agent[1]
       /\ OrderKept(file.agents, file'.agents)
       /\ (last'.op = "list_agents" /\ last'.io = "ok" /\ file.kind = "object") =>
              last'.out = file.agents]_vars

\* the first of three records was replaced by a record of other content
C29_Witness ==
    /\ SavedOk
    /\ Len(last.pre.agents) = 3
    /\ NameOf(last.pre.agents[1]) = NameOf(last.agent[1])
    /\ last.pre.agents[1] # last.agent[1]
    /\ file.agents = <<last.agent[1], last.pre.agents[2], last.pre.agents[3]>>


(***************************************************************************)
(* The text functions of similarity_search.py as functions of their        *)
(* inputs: found holds the last call, its arguments and what it returned.  *)
(***************************************************************************)
TxtHello == <<"H", "e", "l", "l", "o", ",", " ", "W", "o", "r", "l", "d", "!">>

TxtHelloPlain == <<"h", "e", "l", "l", "o", " ", "w", "o", "r", "l", "d">>

TxtDashed == <<"m", "a", "t", "h", "-", "a", "g", "e", "n", "t">>

TxtJoined == <<"m", "a", "t", "h", "a", "g", "e", "n", "t">>

TxtShout == <<" ", "M", "A", "T", "H", "\t", "A", "g", "e", "n", "t", " ", "\n">>

TxtBangs == <<"!", "!">>

TxtBlank == <<" ", "\t">>

TxtMathBang == <<"M", "a", "t", "h", "!">>

\* texts with capitals, special characters inside and outside words, several
\* kinds of whitespace, and texts without any word
TextInputs ==
    {TxtEmpty, TxtBangs, TxtBlank, TxtHello, TxtHelloPlain, TxtDashed, TxtJoined,
     TxtShout, TxtMath, TxtPoemsQuery, TxtWritesPoems, TxtCatQuery}

\* a record that holds a name only, and a record without any key
NameOnlyA == [name |-> TxtMath]

ScoreAgents == {MathA, PoemA, SqlA, NoTypeA, NameOnlyA, <<>>}

ScoreQueries == MatchQueries \cup {TxtMath, TxtMathBang, TxtBangs}

NoText ==
    [done |-> FALSE, op |-> "none", text1 |-> <<>>, text2 |-> <<>>, agent |-> <<>>,
     text |-> <<>>, jaccard |-> 0, keyword |-> 0, cosine |-> 0, score |-> 0]

\* self._normalize_text(x)
NormalizeText(x) ==
    /\ found' = [NoText EXCEPT !.done = TRUE, !.op = "normalize_text",
                               !.text1 = x, !.text = normalize_text(x)]
    /\ UNCHANGED <<file, inited, last, req, pc, loc, query, snapshot,
                   similarity_threshold>>

\* self._cosine_similarity_simple(text1, text2)
CosineSimilaritySimple(text1, text2) ==
    /\ found' = [NoText EXCEPT !.done = TRUE, !.op = "cosine_similarity_simple",
                               !.text1 = text1, !.text2 = text2,
                               !.score = cosine_similarity_simple(text1, text2)]
    /\ UNCHANGED <<file, inited, last, req, pc, loc, query, snapshot,
                   similarity_threshold>>

\* self._calculate_similarity(q, agent): scores holds the three metrics on the
\* query and the agent text
CalculateSimilarity(q, agent) ==
    /\ found' = [NoText EXCEPT !.done = TRUE, !.op = "calculate_similarity",
                               !.text1 = q, !.text2 = AgentText(agent),
                               !.agent = <<agent>>,
                               !.jaccard = jaccard_similarity(q, AgentText(agent)),
                               !.keyword = keyword_overlap_similarity(q, AgentText(agent)),
                               !.cosine = cosine_similarity_simple(q, AgentText(agent)),
                               !.score = calculate_similarity(q, agent)]
    /\ UNCHANGED <<file, inited, last, req, pc, loc, query, snapshot,
                   similarity_threshold>>

InitText ==
    /\ IdleRegistry /\ IdleRequest /\ IdleCallers
    /\ query = <<>>
    /\ snapshot = <<>>
    /\ similarity_threshold = DefaultThreshold
    /\ found = NoText

\* _normalize_text is called on the input texts and on what it returned before
NextText ==
    \/ \E x \in TextInputs \cup {found.text} : NormalizeText(x)
    \/ \E text1, text2 \in TextInputs : CosineSimilaritySimple(text1, text2)
    \/ \E q \in ScoreQueries, agent \in ScoreAgents : CalculateSimilarity(q, agent)

SpecText == InitText /\ [][NextText]_vars

(***************************************************************************)
(* Claims about the text functions (SpecText).                             *)
(***************************************************************************)
\* C23: the score _calculate_similarity returns is 0.4 * jaccard + 0.3 *
\* keyword overlap + 0.3 * cosine of the query and the agent text, or 1.0
\* when that sum is larger, and lies between 0 and 1, also when the three
\* metrics are all 1.
C23_ScoreIsClampedWeightedSum ==
    found.op = "calculate_similarity" =>
        /\ found.score = Min(4 * found.jaccard + 3 * found.keyword + 3 * found.cosine,
                             ScoreOne)
        /\ found.score \in 0..ScoreOne
        /\ {found.jaccard, found.keyword, found.cosine} \subseteq 0..Scale

\* the three metrics are all 1 and the score is 1, for a query and a record
\* that are not the same text
C23_Witness ==
    /\ found.op = "calculate_similarity"
    /\ found.jaccard = Scale /\ found.keyword = Scale /\ found.cosine = Scale
    /\ found.score = ScoreOne
    /\ Words(found.text1) # <<>>
    /\ found.text1 # found.text2

\* the characters of t that are letters, digits or whitespace
IsPlain(c) == IsAlnum(c) \/ IsSpace(c)

PlainOf(t) == SelectSeq(t, IsPlain)

\* the two texts differ only in case and in characters outside letters,
\* digits and whitespace
DifferOnlyInCaseAndSpecial(x, y) == LowerText(PlainOf(x)) = LowerText(PlainOf(y))

\* a run of characters outside letters, digits and whitespace stands between
\* two letters or digits
SpecialInsideWord(t) ==
    \E i, j \in 1..Len(t) :
        /\ i + 1 < j
        /\ IsAlnum(t[i]) /\ IsAlnum(t[j])
        /\ \A k \in (i + 1)..(j - 1) : ~IsPlain(t[k])

BothNormalized == found.op = "normalize_text" /\ found'.op = "normalize_text"

\* _normalize_text applied to what it returned returns it again
NormalizeIdempotent == found'.text1 = found.text => found'.text = found.text

\* C24 as stated: _normalize_text is idempotent, and two texts that differ
\* only in case and in characters outside letters, digits and whitespace
\* have the same normal form.
C24_NormalizeIgnoresCaseAndSpecial ==
    [][BothNormalized =>
          /\ NormalizeIdempotent
          /\ DifferOnlyInCaseAndSpecial(found.text1, found'.text1) =>
                 found'.text = found.text]_vars

\* C24, amended: _normalize_text is idempotent, and two texts that differ
\* only in case and in characters outside letters, digits and whitespace
\* have the same normal form when none of these characters stands inside a
\* word, between two letters or digits.
C24_NormalizeIgnoresCaseAndSpecialOutsideWords ==
    [][BothNormalized =>
          /\ NormalizeIdempotent
          /\ (/\ DifferOnlyInCaseAndSpecial(found.text1, found'.text1)
              /\ ~SpecialInsideWord(found.text1)
              /\ ~SpecialInsideWord(found'.text1)) =>
                 found'.text = found.text]_vars

\* "Hello, World!" has the normal form "hello world"
C24_Witness ==
    /\ found.op = "normalize_text"
    /\ found.text1 = TxtHello
    /\ found.text = TxtHelloPlain
    /\ DifferOnlyInCaseAndSpecial(TxtHello, TxtHelloPlain)
    /\ ~SpecialInsideWord(TxtHello)

\* C30: _cosine_similarity_simple returns 0.0 whenever one of the two texts
\* has no word after normalisation, also when both have none.
C30_CosineZeroWithoutTokens ==
    (/\ found.op = "cosine_similarity_simple"
     /\ (Words(found.text1) = <<>> \/ Words(found.text2) = <<>>)) =>
        found.score = 0


(***************************************************************************)
(* Claims about the requests and the registry (SpecOrch).                  *)
(***************************************************************************)
\* the step is a call of process_request; req' holds its trace
RequestStep == req' # req

\* C22: a call of process_request changes the registry file only on the
\* create path, after the matcher returned None, by the save_agent of the
\* created record, and no name the registry holds before the call is
\* missing after it.
C22_RequestsNeverLoseNames ==
    [][RequestStep =>
          /\ file' # file =>
                 /\ req'[1].path = "create"
                 /\ req'[1].save_ret # "not_called"
                 /\ search_existing(file, similarity_threshold, req'[1].analysis,
                                    req'[1].list_io).existing = <<>>
          /\ NamesIn(file.agents) \subseteq NamesIn(file'.agents)]_vars

\* the same, but for the requests whose save_agent fails after it has opened
\* the file for writing
C22_RequestsKeepNamesUnlessWriteFails ==
    [][(RequestStep /\ ~(req'[1].save_ret = "False" /\ file' # file)) =>
          /\ file' # file =>
                 /\ req'[1].path = "create"
                 /\ req'[1].save_ret = "True"
                 /\ search_existing(file, similarity_threshold, req'[1].analysis,
                                    req'[1].list_io).existing = <<>>
          /\ NamesIn(file.agents) \subseteq NamesIn(file'.agents)]_vars

\* the task analysis of the request is a dict that does not ask for delegation
NoDelegationAsked ==
    /\ req'[1].is_dict
    /\ ~Get(req'[1].analysis, "requires_delegation", FALSE)

\* C27: when the task analysis has requires_delegation false (the default
\* analysis used after an Analyzer failure included), process_request calls
\* the Analyzer and the direct handler and nothing else: no list_agents, no
\* find_similar_agent, no Creator, no save_agent, no delegation to an agent;
\* and the registry file is left as it was.
C27_NoDelegationGoesDirect ==
    [][(RequestStep /\ NoDelegationAsked) =>
          /\ req'[1].path = "direct"
          /\ req'[1].calls = <<"Analyzer", "DirectResponder">>
          /\ req'[1].agent = <<>>
          /\ req'[1].cr = "not_called"
          /\ req'[1].save_ret = "not_called"
          /\ req'[1].list_io = "not_called"
          /\ req'[1].analysis_fallback => req'[1].analysis = FallbackAnalysis
          /\ file' = file]_vars

\* a request was handled directly on the default analysis while the registry
\* held a record
C27_Witness ==
    /\ req # <<>>
    /\ req[1].analysis_fallback
    /\ req[1].path = "direct"
    /\ req[1].rs = "text"
    /\ file.kind = "object" /\ file.agents # <<>>

\* what the matcher returns for the request of the step: find_similar_agent
\* on the agent_description and on the list list_agents returns
MatchedRecord ==
    find_similar_agent(Get(req'[1].analysis, "agent_description", <<>>),
                       list_agents(file, req'[1].list_io).out,
                       similarity_threshold)

\* the request asks for delegation and the matcher returns a record
MatcherReturnsRecord ==
    /\ req'[1].is_dict
    /\ Get(req'[1].analysis, "requires_delegation", FALSE)
    /\ req'[1].list_io # "not_called"
    /\ MatchedRecord # <<>>

\* C28: when the matcher returns a record, the request is delegated to
\* exactly that record: the Creator and save_agent are not called, the calls
\* are the Analyzer, list_agents, find_similar_agent and the Responder with
\* that record, and the registry file, all fields of the record included, is
\* left as it was.
C28_MatchIsDelegatedUnchanged ==
    [][(RequestStep /\ MatcherReturnsRecord) =>
          /\ req'[1].path = "reuse"
          /\ req'[1].agent = MatchedRecord
          /\ req'[1].cr = "not_called"
          /\ req'[1].save_ret = "not_called"
          /\ req'[1].outer = "none"
          /\ req'[1].calls = <<"Analyzer", "list_agents", "find_similar_agent", "Responder">>
          /\ file' = file]_vars

\* the same for a matched record that holds a name
C28_NamedMatchIsDelegatedUnchanged ==
    [][(RequestStep /\ MatcherReturnsRecord /\ NameOf(MatchedRecord[1]) # <<>>) =>
          /\ req'[1].path = "reuse"
          /\ req'[1].agent = MatchedRecord
          /\ req'[1].cr = "not_called"
          /\ req'[1].save_ret = "not_called"
          /\ req'[1].outer = "none"
          /\ req'[1].calls = <<"Analyzer", "list_agents", "find_similar_agent", "Responder">>
          /\ file' = file]_vars

\* a request was delegated to the second of two stored records
C28_NamedMatchReached ==
    /\ req # <<>>
    /\ req[1].path = "reuse"
    /\ req[1].outer = "none"
    /\ req[1].rs = "text"
    /\ Len(file.agents) = 2
    /\ req[1].agent = <<file.agents[2]>>


(***************************************************************************)
(* Claims about failed and successful writes of the registry               *)
(* (SpecRegistry, SpecLoad).                                               *)
(***************************************************************************)
\* C33: when save_agent returns False the file holds what it held before the
\* call: a failed save_agent never truncates the store and loses no record.
C33_FailedSaveLeavesStore ==
    (last.op = "save_agent" /\ last.ret = "False") => file = last.pre

\* the records of the collection before the call whose name is not the one
\* given to delete_agent, in their order
OthersBeforeDelete ==
    LET Other(agent) == NameOf(agent) # last.name
    IN  SelectSeq(last.pre.agents, Other)

\* C38: a delete_agent that returns True leaves no record of the given name,
\* also when the store held several, and leaves the other records as they
\* were and in their order; a delete_agent that finds no record of the name
\* returns False and does not write the file, whatever file operation would
\* fail.
C38_DeleteRemovesAllOfName ==
    last.op = "delete_agent" =>
        /\ last.ret = "True" =>
              /\ file.kind = "object"
              /\ last.name \notin NamesIn(file.agents)
              /\ file.agents = OthersBeforeDelete
        /\ (last.io # "read_fails" /\ last.name \notin NamesIn(last.pre.agents)) =>
              /\ last.ret = "False"
              /\ file = last.pre

\* two records of the name were removed from a store of three
C38_Witness ==
    /\ last.op = "delete_agent" /\ last.ret = "True"
    /\ Len(last.pre.agents) = 3
    /\ Len(file.agents) = 1
    /\ NameOf(last.pre.agents[1]) = last.name
    /\ NameOf(last.pre.agents[3]) = last.name

\* a delete_agent of a name the store does not hold, with a failing write
\* had there been one
C38_NoWriteReached ==
    /\ last.op = "delete_agent" /\ last.ret = "False"
    /\ last.io = "dump_fails"
    /\ last.pre.kind = "object" /\ last.pre.agents # <<>>
    /\ last.name \notin NamesIn(last.pre.agents)


\* the record the store f holds under the name key, <<>> when it holds none
\* or cannot be loaded
Held(f, key) ==
    IF f.kind = "object" /\ \E i \in 1..Len(f.agents) : NameOf(f.agents[i]) = key
    THEN <<f.agents[CHOOSE i \in 1..Len(f.agents) :
                        /\ NameOf(f.agents[i]) = key
                        /\ \A j \in 1..(i - 1) : NameOf(f.agents[j]) # key]>>
    ELSE <<>>

\* the step is a save_agent or a delete_agent of the name key
WritesName(key) ==
    \/ last'.op = "save_agent" /\ NameOf(last'.agent[1]) = key
    \/ last'.op = "delete_agent" /\ last'.name = key

\* a file operation of the step fails after the file was opened for writing,
\* or the load of a construction fails
WriteOrLoadFails ==
    \/ last'.io = "dump_fails"
    \/ last'.op = "init" /\ last'.io = "read_fails"

\* get_agent returns the record held under the name, None when there is
\* none, and never raises; after a save_agent that returned True the record
\* saved is held under its name
GetReturnsHeld ==
    /\ (last'.op = "get_agent" /\ last'.io = "ok") =>
           /\ last'.out = Held(file, last'.name)
           /\ last'.ret = "returned"
    /\ (last'.op = "save_agent" /\ last'.ret = "True") =>
           Held(file', NameOf(last'.agent[1])) = last'.agent

\* C32: after a save_agent of r that returned True, get_agent with r's name
\* returns r, also after a new construction of the registry over the same
\* file, until a later save_agent or delete_agent of that name: no other
\* step changes the record held under a name; and get_agent with a name the
\* store does not hold returns None without raising.
C32_ReadYourWrites ==
    [][/\ GetReturnsHeld
       /\ \A name \in DeleteInputs :
              ~WritesName(<<name>>) => Held(file', <<name>>) = Held(file, <<name>>)]_vars

\* the same, but for the steps in which a write or the load of a
\* construction fails
C32_ReadYourWritesUnlessWriteFails ==
    [][/\ GetReturnsHeld
       /\ \A name \in DeleteInputs :
              (~WritesName(<<name>>) /\ ~WriteOrLoadFails) =>
                  Held(file', <<name>>) = Held(file, <<name>>)]_vars

\* get_agent returned the record of the second of two names
C32_GetReached ==
    /\ last.op = "get_agent" /\ last.io = "ok"
    /\ Len(file.agents) >= 2
    /\ last.out = <<file.agents[2]>>


(***************************************************************************)
(* Claims about the records the requests create (SpecOrch).                *)
(***************************************************************************)
\* C34: when a request on the create path calls the Responder with the new
\* record, save_agent has returned True for it and the registry file holds a
\* record of its name.
C34_DelegatesOnlyToSavedRecord ==
    [][(/\ RequestStep
        /\ req'[1].path = "create"
        /\ "Responder" \in Range(req'[1].calls)) =>
           /\ req'[1].save_ret = "True"
           /\ NameOf(req'[1].agent[1]) \in NamesIn(file'.agents)]_vars

\* C35: every record a request passes to save_agent holds a name, so every
\* record of the registry file does; a Creator answer that is an object
\* without a name is replaced by the fallback record.
C35_UpsertedRecordsHoldNames ==
    [][RequestStep =>
          /\ req'[1].save_ret # "not_called" =>
                 /\ NameOf(req'[1].agent[1]) # <<>>
                 /\ NameOf(req'[1].agent[1]) # <<TxtEmpty>>
          /\ req'[1].path = "create" =>
                 \/ NameOf(req'[1].agent[1]) # <<>>
                 \/ req'[1].agent = <<FallbackAgent(req'[1].analysis)>>
          /\ \A i \in 1..Len(file'.agents) : NameOf(file'.agents[i]) # <<>>]_vars


(***************************************************************************)
(* Claims about concurrent upserts (SpecConc).                             *)
(***************************************************************************)
\* C36: under every interleaving of concurrent calls, the file never holds
\* two records of one name, and no caller is about to write a collection
\* that does; this includes two save_agent calls of one new name that both
\* load the file before either writes it.
C36_NamesStayUniqueUnderConcurrency ==
    /\ UniqueNames(file.agents)
    /\ \A p \in Callers : UniqueNames(loc[p].data)

\* two save_agent calls of one name the store did not hold have both loaded
\* the file; one has opened it for writing, the other is about to
C36_Witness ==
    \E p, q \in Callers :
        /\ p # q
        /\ loc[p].op = "save_agent" /\ loc[q].op = "save_agent"
        /\ loc[p].agent = loc[q].agent
        /\ NameOf(loc[p].agent[1]) \notin NamesIn(loc[p].pre.agents)
        /\ pc[p] = "dump" /\ pc[q] = "open_w"
        /\ loc[p].agent[1] \in Range(loc[p].data)
        /\ loc[q].agent[1] \in Range(loc[q].data)


(***************************************************************************)
(* Claims about the matcher and the list of scores (SpecMatch).            *)
(***************************************************************************)
\* the query and the text of the record both have words and share none
NoCommonToken(q, agent) ==
    /\ Words(q) # <<>>
    /\ Words(AgentText(agent)) # <<>>
    /\ Range(Words(q)) \cap Range(Words(AgentText(agent))) = {}

HasLongToken(t) == \E w \in Range(Words(t)) : Len(w) > KeywordMinLen

\* the query shares no word with the text of any record of the snapshot
NothingInCommon ==
    /\ found.done /\ found.listed
    /\ snapshot # <<>>
    /\ \A i \in 1..Len(snapshot) : NoCommonToken(query, snapshot[i])

\* every score is 0, find_similar_agent returns None, and a
\* _find_or_create_agent that gets this answer goes on to create a record
AllZeroAndCreate ==
    /\ \A k \in 1..Len(found.scores) : found.scores[k].similarity_score = 0
    /\ found.agent = <<>>
    /\ find_or_create_delegated(
           Store(snapshot),
           [task_type |-> TxtMath, agent_description |-> query,
            requires_delegation |-> TRUE],
           [is_list |-> TRUE, io |-> "ok", existing |-> found.agent],
           Raises("quota"), "ok").path = "create"

\* C31 as stated: when the query and the text of every record have words
\* and share none, every score is 0, find_similar_agent returns None and the
\* request goes on to create a record, also when neither text has a word
\* longer than three characters.
C31_NoCommonTokenScoresZero == NothingInCommon => AllZeroAndCreate

\* C31, amended: the same when, for every record, the query or the text of
\* the record has a word longer than three characters.
C31_NoCommonTokenScoresZeroWithKeyword ==
    (/\ NothingInCommon
     /\ \A i \in 1..Len(snapshot) :
            HasLongToken(query) \/ HasLongToken(AgentText(snapshot[i]))) =>
        AllZeroAndCreate

\* a query of short words only against two records that have long words, at
\* the default threshold
C31_Witness ==
    /\ NothingInCommon
    /\ ~HasLongToken(query)
    /\ Len(snapshot) = 2 /\ snapshot[1] # snapshot[2]
    /\ \A i \in 1..Len(snapshot) : HasLongToken(AgentText(snapshot[i]))
    /\ similarity_threshold = DefaultThreshold
    /\ AllZeroAndCreate

\* neither the query nor the record has a word longer than three characters:
\* the score is 0.3 and the record is returned
C31_ShortWordsMatchReached ==
    /\ NothingInCommon
    /\ Len(snapshot) = 1
    /\ ~HasLongToken(query) /\ ~HasLongToken(AgentText(snapshot[1]))
    /\ similarity_threshold = DefaultThreshold
    /\ found.scores[1].similarity_score = 3 * Scale
    /\ found.agent = <<snapshot[1]>>

SomeEntryMeetsThreshold ==
    \E k \in 1..Len(found.scores) : found.scores[k].meets_threshold

\* C37: for every query, snapshot and threshold, find_similar_agent returns
\* a record exactly when an entry of get_similarity_scores has
\* meets_threshold true, and the record is the agent of the first entry of
\* that list.
C37_MatcherAgreesWithScoreList ==
    (found.done /\ found.listed) =>
        /\ (found.agent # <<>>) = SomeEntryMeetsThreshold
        /\ found.agent # <<>> => found.agent = <<found.scores[1].agent>>

\* the same for snapshots whose best score is above the 0.09 the scan of
\* find_similar_agent starts with, or meets no threshold
C37_AgreesAboveInitial ==
    (/\ found.done /\ found.listed
     /\ ~(/\ SomeEntryMeetsThreshold
          /\ found.scores[1].similarity_score <= InitialBestScore)) =>
        /\ (found.agent # <<>>) = SomeEntryMeetsThreshold
        /\ found.agent # <<>> => found.agent = <<found.scores[1].agent>>

\* the list holds two records of one score and the record found is the
\* first of the snapshot
C37_TieInListReached ==
    /\ found.done /\ found.listed
    /\ Len(snapshot) = 2 /\ snapshot[1] # snapshot[2]
    /\ found.scores[1].similarity_score = found.scores[2].similarity_score
    /\ found.agent = <<snapshot[1]>>
    /\ found.scores[1].agent = snapshot[1]

====
